---- MODULE Spec2Model ----
(***************************************************************************)
(* A model of channels-mqtt-proxy: ChannelsMQTTProxy (the subscription     *)
(* registry, the connect loop of run(), the inbound fan-out, the topic     *)
(* matcher) and the MqttConsumer handlers that call it.                    *)
(*                                                                         *)
(* Strings are sequences of one-character strings, 1-indexed; positions    *)
(* of the Python code (0-indexed) are kept and shifted by one on access.   *)
(***************************************************************************)
EXTENDS Naturals, Integers, Sequences, FiniteSets, TLC

\* ------------------------------------------------------------- bounds

\* How many connect attempts of one connect() call the attempt log keeps
\* (the most recent ones).
MaxAttempts == 4
\* How many consumer handlers may be blocked on connected.wait() at once.
MaxWaiting == 1

\* How many levels the filters and topics handed to the matcher have at most.
MaxLevels == 3

\* ------------------------------------------------------------- constants

\* asyncio.sleep(1) after an ssl.SSLError while building the TLS context
TlsRetryDelay == 1
\* asyncio.sleep(30) after MQTTConnectError
RejectCooldown == 30
\* asyncio.sleep(1) after any other exception of the attempt
TransientDelay == 1

\* ------------------------------------------------------------- inputs

fPlus == <<"a", "/", "+">>
fAB == <<"a", "/", "b">>
tAB == <<"a", "/", "b">>
tAC == <<"a", "/", "c">>
tC == <<"c">>

Filters == {fPlus, fAB}
Topics == {tAB, tAC, tC}
\* the topics of publish requests
PubTopics == {tAB}
Groups == {"g1", "g2"}
QoS == {0, 1}
\* Raw payload bytes: a JSON document, UTF-8 text that is no JSON, and bytes
\* that are no valid UTF-8.
Payloads == {[kind |-> "json", id |-> 1], [kind |-> "text", id |-> 2],
             [kind |-> "binary", id |-> 3]}
Retain == {0, 1}

NoTopic == <<>>
NoGroup == "-"

\* The levels of the topics and filters handed to the matcher: literal
\* levels, one of them of the $ kind, and the two wildcards.
TopicLevels == {<<"a">>, <<"a", "b">>, <<"$", "s">>}
FilterLevels == TopicLevels \cup {<<"+">>}
Hash == <<"#">>

SeqsUpTo(S, n) == UNION {[1..k -> S] : k \in 1..n}

\* Topic names of 1..MaxLevels levels, as sequences of levels
TopicNames == SeqsUpTo(TopicLevels, MaxLevels)

\* Topic filters of 1..MaxLevels levels of valid form: # only as the last level
TopicFilters ==
    SeqsUpTo(FilterLevels, MaxLevels)
      \cup {Append(x, Hash) : x \in SeqsUpTo(FilterLevels, MaxLevels - 1) \cup {<<>>}}

\* The string of a sequence of levels: "/".join(levels)
RECURSIVE Join(_)
Join(levels) ==
    IF Len(levels) = 0 THEN <<>>
    ELSE IF Len(levels) = 1 THEN levels[1]
    ELSE levels[1] \o <<"/">> \o Join(Tail(levels))

VARIABLES
    subscriptions,  \* self.subscriptions: dict topic -> list of groups, in insertion order
    is_connected,   \* self.mqtt.is_connected
    reconnecting,   \* the broker client lost its connection and is re-connecting by itself
    connected,      \* self.connected (asyncio.Event)
    stop_event,     \* self.stop_event (asyncio.Event)
    pc,             \* where the run() task is
    useTLS,         \* mqtt_usessl and mqtt_ssl_ca is not None
    attemptLog,     \* the outcomes of connect()'s attempts and the sleep that followed each
    subWaiters,     \* mqtt_subscribe handlers blocked on connected.wait(): <<topic, group>>
    pubWaiters,     \* mqtt_publish handlers blocked on connected.wait(): topic
    calls,          \* the broker-client calls the last step made, in order
    lastOp,         \* the last step: [op, topic, group, raised, msg]
    handler,        \* what became of the last _on_message call
    tasks,          \* the group_send coroutines it handed to asyncio.gather
    requested,      \* history: <<topic, group>> subscribed and not since asked to be unsubscribed
    query,          \* a call of topic_matches_sub: its arguments and its result
    lostWith,       \* history: the dict's keys when the broker connection was last lost
    covered         \* history: topics handed to mqtt.subscribe, less those handed to
                    \* mqtt.unsubscribe, on the connection the client now has

vars == <<subscriptions, is_connected, reconnecting, connected, stop_event, pc,
          useTLS, attemptLog, subWaiters, pubWaiters, calls, lastOp, handler,
          tasks, requested, query, lostWith, covered>>

\* ------------------------------------------------------------- the dict

\* self.subscriptions is a sequence of [topic, groups] entries with distinct
\* topics: a Python dict keeps insertion order.
Keys(d) == {d[i].topic : i \in DOMAIN d}

Has(d, k) == k \in Keys(d)

IndexOf(d, k) == CHOOSE i \in DOMAIN d : d[i].topic = k

Get(d, k) == d[IndexOf(d, k)].groups

InList(x, l) == \E i \in DOMAIN l : l[i] = x

ListSet(l) == {l[i] : i \in DOMAIN l}

\* d[k] = [] for a new key
PutEmpty(d, k) == Append(d, [topic |-> k, groups |-> <<>>])

\* d[k].append(g)
AppendGroup(d, k, g) ==
    [d EXCEPT ![IndexOf(d, k)].groups = Append(@, g)]

Call(op, topic, conn) == [op |-> op, topic |-> topic, conn |-> conn]

\* ------------------------------------------------------------- topic_matches_sub

\* while tpos < tlen and topic[tpos] != '/': tpos += 1
RECURSIVE SkipLevel(_, _)
SkipLevel(topic, tpos) ==
    IF tpos < Len(topic) /\ topic[tpos + 1] /= "/"
    THEN SkipLevel(topic, tpos + 1)
    ELSE tpos

Exit(result, multilevel_wildcard, spos, tpos) ==
    [result |-> result, multilevel_wildcard |-> multilevel_wildcard,
     spos |-> spos, tpos |-> tpos]

RECURSIVE MatchLoop(_, _, _, _)
\* The loop with a condition that stops one character early in the filter
MatchLoop_short(sub, topic, spos, tpos) ==
    IF spos >= Len(sub) - 1
    THEN Exit(TRUE, FALSE, spos, tpos)
    ELSE MatchLoop(sub, topic, spos + 1, tpos + 1)

\* The while loop of topic_matches_sub from (spos, tpos), up to the values
\* of result, multilevel_wildcard, spos and tpos it leaves.
MatchLoop(sub, topic, spos, tpos) ==
    LET slen == Len(sub)
        tlen == Len(topic)
    IN  IF ~(spos < slen /\ tpos < tlen)
        THEN Exit(TRUE, FALSE, spos, tpos)
        ELSE IF sub[spos + 1] = topic[tpos + 1]
        THEN IF tpos = tlen - 1 /\ spos = slen - 3
                /\ sub[spos + 2] = "/" /\ sub[spos + 3] = "#"
             THEN Exit(TRUE, TRUE, spos, tpos)
             ELSE IF tpos + 1 = tlen /\ spos + 1 = slen - 1 /\ sub[spos + 2] = "+"
                  THEN Exit(TRUE, FALSE, spos + 2, tpos + 1)
                  ELSE MatchLoop(sub, topic, spos + 1, tpos + 1)
        ELSE IF sub[spos + 1] = "+"
        THEN LET tp == SkipLevel(topic, tpos)
             IN  IF tp = tlen /\ spos + 1 = slen
                 THEN Exit(TRUE, FALSE, spos + 1, tp)
                 ELSE MatchLoop(sub, topic, spos + 1, tp)
        ELSE IF sub[spos + 1] = "#"
        THEN Exit(spos + 1 = slen, TRUE, spos, tpos)
        ELSE Exit(FALSE, FALSE, spos, tpos)

\* The matcher without the check of the leading $
topic_matches_sub_no_dollar(sub, topic) ==
    LET e == MatchLoop(sub, topic, 0, 0)
    IN  IF ~e.multilevel_wildcard /\ (e.tpos < Len(topic) \/ e.spos < Len(sub))
        THEN FALSE
        ELSE e.result

topic_matches_sub(sub, topic) ==
    LET slen == Len(sub)
        tlen == Len(topic)
    IN  IF slen > 0 /\ tlen > 0
           /\ ((sub[1] = "$" /\ topic[1] /= "$") \/ (topic[1] = "$" /\ sub[1] /= "$"))
        THEN FALSE
        ELSE LET e == MatchLoop(sub, topic, 0, 0)
             IN  IF ~e.multilevel_wildcard /\ (e.tpos < tlen \/ e.spos < slen)
                 THEN FALSE
                 ELSE e.result

\* ------------------------------------------------------------- the registry

\* groups_matching_topic with the verbatim comparison only
groups_matching_topic_verbatim(d, topic) ==
    UNION {ListSet(d[i].groups) : i \in {j \in DOMAIN d : d[j].topic = topic}}

groups_matching_topic(d, topic) ==
    UNION {ListSet(d[i].groups) :
             i \in {j \in DOMAIN d : d[j].topic = topic
                                     \/ topic_matches_sub(d[j].topic, topic)}}

\* subscribe without the check that the group is already in the list
subscribe_no_check(d, conn, topic, group) ==
    IF ~Has(d, topic)
    THEN [subs |-> AppendGroup(PutEmpty(d, topic), topic, group),
          calls |-> <<Call("subscribe", topic, conn)>>]
    ELSE [subs |-> AppendGroup(d, topic, group), calls |-> <<>>]

\* subscribe with an mqtt.subscribe for every group it appends
subscribe_each_group(d, conn, topic, group) ==
    IF ~Has(d, topic)
    THEN [subs |-> AppendGroup(PutEmpty(d, topic), topic, group),
          calls |-> <<Call("subscribe", topic, conn)>>]
    ELSE IF InList(group, Get(d, topic))
         THEN [subs |-> d, calls |-> <<>>]
         ELSE [subs |-> AppendGroup(d, topic, group),
               calls |-> <<Call("subscribe", topic, conn)>>]

\* subscribe(topic, group): the dict it leaves and the broker calls it makes.
\* conn is mqtt.is_connected at the call.
subscribe(d, conn, topic, group) ==
    IF ~Has(d, topic)
    THEN [subs |-> AppendGroup(PutEmpty(d, topic), topic, group),
          calls |-> <<Call("subscribe", topic, conn)>>]
    ELSE IF InList(group, Get(d, topic))
         THEN [subs |-> d, calls |-> <<>>]
         ELSE [subs |-> AppendGroup(d, topic, group), calls |-> <<>>]

\* unsubscribe(topic, group): groups.delete(topic) is no method of a list,
\* the call raises AttributeError before anything is changed.
unsubscribe(d, conn, topic, group) ==
    IF Has(d, topic)
    THEN IF InList(group, Get(d, topic))
         THEN [subs |-> d, calls |-> <<>>, raised |-> TRUE]
         ELSE IF Len(Get(d, topic)) = 0
              THEN [subs |-> d, calls |-> <<Call("unsubscribe", topic, conn)>>,
                    raised |-> FALSE]
              ELSE [subs |-> d, calls |-> <<>>, raised |-> FALSE]
    ELSE [subs |-> d, calls |-> <<>>, raised |-> FALSE]

\* _on_connect as it would be with one mqtt.subscribe per group of each key
RECURSIVE on_connect_per_group(_)
on_connect_per_group(d) ==
    IF d = <<>> THEN <<>>
    ELSE [i \in DOMAIN Head(d).groups |-> Call("subscribe", Head(d).topic, TRUE)]
         \o on_connect_per_group(Tail(d))

\* _on_connect that replays nothing
on_connect_no_replay(d) == <<>>

\* _on_connect: one mqtt.subscribe per key of the dict
on_connect(d) == [i \in DOMAIN d |-> Call("subscribe", d[i].topic, TRUE)]

\* The topics the broker holds a subscription for after the calls cs, when it
\* held one for each topic of S before: a call made while the client is not
\* connected reaches no broker.
RECURSIVE Issued(_, _)
Issued(S, cs) ==
    IF cs = <<>> THEN S
    ELSE LET c == Head(cs)
             T == IF ~c.conn THEN S
                  ELSE IF c.op = "subscribe" THEN S \cup {c.topic}
                  ELSE IF c.op = "unsubscribe" THEN S \ {c.topic}
                  ELSE S
         IN  Issued(T, Tail(cs))

\* publish(topic, ...)
publish(conn, topic) == <<Call("publish", topic, conn)>>

\* ------------------------------------------------------------- _on_message

\* payload.decode("utf-8")
Utf8Decode(payload) ==
    IF payload.kind = "binary"
    THEN [ok |-> FALSE, text |-> payload]
    ELSE [ok |-> TRUE, text |-> [form |-> "str", kind |-> payload.kind, id |-> payload.id]]

\* try: json.loads(payload) except: keep the text
JsonLoadsOrRaw(text) ==
    IF text.kind = "json"
    THEN [form |-> "object", kind |-> "json", id |-> text.id]
    ELSE text

Event(topic, payload, qos) ==
    [type |-> "mqtt.message",
     message |-> [topic |-> topic, payload |-> payload, qos |-> qos]]

\* A set as a sequence, in some order: iterating a Python set.
RECURSIVE SetToSeq(_)
SetToSeq(S) ==
    IF S = {} THEN <<>>
    ELSE LET x == CHOOSE y \in S : TRUE
         IN  <<x>> \o SetToSeq(S \ {x})

\* tasks.append(self.channel_layer.group_send(grp, event)) for each matching group
FanoutTasks(d, topic, event) ==
    LET gs == SetToSeq(groups_matching_topic(d, topic))
    IN  [i \in DOMAIN gs |-> [group |-> gs[i], event |-> event, status |-> "pending"]]

\* A gather that cancels the tasks still running when one of them fails
AfterFailure_cancel(ts, i) ==
    [j \in DOMAIN ts |->
        IF j = i THEN [ts[j] EXCEPT !.status = "failed"]
        ELSE IF ts[j].status = "pending" THEN [ts[j] EXCEPT !.status = "cancelled"]
        ELSE ts[j]]

\* What a failing group_send does to the other tasks of the gather: nothing.
AfterFailure(ts, i) == [ts EXCEPT ![i].status = "failed"]

\* ------------------------------------------------------------- connect()

\* One delay for every failure
BackoffDelay_flat(outcome) == TransientDelay

\* The sleep that follows an attempt that ended in `outcome`.
BackoffDelay(outcome) ==
    CASE outcome = "tls_error" -> TlsRetryDelay
      [] outcome = "rejected" -> RejectCooldown
      [] OTHER -> TransientDelay

Logged(log, outcome, delay) ==
    LET l == Append(log, [outcome |-> outcome, delay |-> delay])
    IN  IF Len(l) > MaxAttempts THEN Tail(l) ELSE l

\* ------------------------------------------------------------- _on_message, continued

\* _on_message up to its await of asyncio.gather: what becomes of the call
\* and the tasks it hands to gather.
on_message(d, msg) ==
    IF msg.retain = 1
    THEN [handler |-> "dropped", tasks |-> <<>>]
    ELSE LET dec == Utf8Decode(msg.payload)
         IN  IF ~dec.ok
             THEN [handler |-> "raised", tasks |-> <<>>]
             ELSE LET ts == FanoutTasks(d, msg.topic,
                                        Event(msg.topic, JsonLoadsOrRaw(dec.text), msg.qos))
                  IN  [handler |-> IF Len(ts) = 0 THEN "returned" ELSE "gathering",
                       tasks |-> ts]

Pending(ts) == {i \in DOMAIN ts : ts[i].status = "pending"}

\* await asyncio.gather(*tasks) inside try/except Exception: the call ends
\* when every task has ended, or with the first exception, which is logged.
Gathered(h, ts, failed) ==
    IF h /= "gathering" THEN h
    ELSE IF failed THEN "caught"
    ELSE IF Pending(ts) = {} THEN "returned"
    ELSE "gathering"

\* ------------------------------------------------------------- state machine

NoMessage ==
    [topic |-> NoTopic, payload |-> [kind |-> "none", id |-> 0], qos |-> 0, retain |-> 0]

Op(op, topic, group, raised) ==
    [op |-> op, topic |-> topic, group |-> group, raised |-> raised, msg |-> NoMessage]

NoQuery == [fsegs |-> <<>>, tsegs |-> <<>>, sub |-> <<>>, topic |-> <<>>,
            done |-> FALSE, result |-> FALSE]

\* The object as __init__ leaves it.
InitProxy ==
    /\ subscriptions = <<>>
    /\ is_connected = FALSE
    /\ reconnecting = FALSE
    /\ connected = FALSE
    /\ stop_event = FALSE
    /\ pc = "start"
    /\ useTLS \in BOOLEAN
    /\ attemptLog = <<>>
    /\ subWaiters = {}
    /\ pubWaiters = {}
    /\ calls = <<>>
    /\ lastOp = Op("init", NoTopic, NoGroup, FALSE)
    /\ handler = "idle"
    /\ tasks = <<>>
    /\ requested = {}
    /\ lostWith = {}
    /\ covered = {}

Init == InitProxy /\ query = NoQuery

Running == pc /= "stopped"

Waiting == Cardinality(subWaiters) + Cardinality(pubWaiters)

\* run(): the signal handlers are installed and connect() is entered.
Run ==
    /\ pc = "start"
    /\ pc' = "connect"
    /\ calls' = <<>>
    /\ lastOp' = Op("run", NoTopic, NoGroup, FALSE)
    /\ UNCHANGED <<query, lostWith, covered, subscriptions, is_connected, reconnecting, connected, stop_event,
                   useTLS, attemptLog, subWaiters, pubWaiters, handler,
                   tasks, requested>>

Outcomes == {"rejected", "transient"} \cup (IF useTLS THEN {"tls_error"} ELSE {})

\* A connect() that gives up when the broker rejects the client
ConnectFail_fatal(outcome) ==
    /\ pc = "connect"
    /\ ~is_connected
    /\ outcome \in Outcomes
    /\ attemptLog' = Logged(attemptLog, outcome, BackoffDelay(outcome))
    /\ pc' = IF outcome = "rejected" THEN "stopped" ELSE "sleep"
    /\ calls' = IF outcome = "rejected"
                THEN <<Call("disconnect", NoTopic, is_connected)>>
                ELSE <<>>
    /\ reconnecting' = IF outcome = "rejected" THEN FALSE ELSE reconnecting
    /\ lastOp' = Op("connect_fail", NoTopic, NoGroup, FALSE)
    /\ UNCHANGED <<query, lostWith, covered, subscriptions, is_connected, connected, stop_event, useTLS,
                   subWaiters, pubWaiters, handler, tasks, requested>>

\* connect(): one pass of the while loop that ends in an except branch.
ConnectFail(outcome) ==
    /\ pc = "connect"
    /\ ~is_connected
    /\ outcome \in Outcomes
    /\ attemptLog' = Logged(attemptLog, outcome, BackoffDelay(outcome))
    /\ pc' = "sleep"
    /\ calls' = IF outcome = "rejected"
                THEN <<Call("disconnect", NoTopic, is_connected)>>
                ELSE <<>>
    /\ reconnecting' = IF outcome = "rejected" THEN FALSE ELSE reconnecting
    /\ lastOp' = Op("connect_fail", NoTopic, NoGroup, FALSE)
    /\ UNCHANGED <<query, lostWith, covered, subscriptions, is_connected, connected, stop_event, useTLS,
                   subWaiters, pubWaiters, handler, tasks, requested>>

\* connect(): mqtt.connect() succeeds and the client calls _on_connect; the
\* while condition then finds the client connected, connect() does
\* connected.set() and returns, and run() enters finish().
ConnectOk ==
    /\ pc = "connect"
    /\ ~is_connected
    /\ is_connected' = TRUE
    /\ reconnecting' = FALSE
    /\ calls' = on_connect(subscriptions)
    /\ connected' = TRUE
    /\ pc' = "finish"
    /\ attemptLog' = <<>>
    /\ lastOp' = Op("connect_ok", NoTopic, NoGroup, FALSE)
    /\ covered' = Issued({}, calls')
    /\ UNCHANGED <<query, lostWith, subscriptions, stop_event, useTLS, subWaiters, pubWaiters,
                   handler, tasks, requested>>

\* connect(): asyncio.sleep() ends, back to the while condition.
Wake ==
    /\ pc = "sleep"
    /\ pc' = "connect"
    /\ calls' = <<>>
    /\ lastOp' = Op("wake", NoTopic, NoGroup, FALSE)
    /\ UNCHANGED <<query, lostWith, covered, subscriptions, is_connected, reconnecting, connected, stop_event,
                   useTLS, attemptLog, subWaiters, pubWaiters, handler,
                   tasks, requested>>

\* finish(): stop_event is set; mqtt.disconnect(); run() returns and the
\* consumer's done callback exits the process.
Finish ==
    /\ pc = "finish"
    /\ stop_event
    /\ calls' = <<Call("disconnect", NoTopic, is_connected)>>
    /\ is_connected' = FALSE
    /\ reconnecting' = FALSE
    /\ pc' = "stopped"
    /\ lastOp' = Op("finish", NoTopic, NoGroup, FALSE)
    /\ covered' = {}
    /\ UNCHANGED <<query, lostWith, subscriptions, connected, stop_event, useTLS, attemptLog,
                   subWaiters, pubWaiters, handler, tasks, requested>>

\* ask_exit(): SIGINT or SIGTERM
AskExit ==
    /\ pc \notin {"start", "stopped"}
    /\ stop_event' = TRUE
    /\ calls' = <<>>
    /\ lastOp' = Op("ask_exit", NoTopic, NoGroup, FALSE)
    /\ UNCHANGED <<query, lostWith, covered, subscriptions, is_connected, reconnecting, connected, pc, useTLS,
                   attemptLog, subWaiters, pubWaiters, handler, tasks,
                   requested>>

\* A loss of the broker connection that empties the dict
BrokerDisconnect_clearing ==
    /\ Running
    /\ is_connected
    /\ is_connected' = FALSE
    /\ reconnecting' = TRUE
    /\ subscriptions' = <<>>
    /\ lostWith' = Keys(subscriptions)
    /\ covered' = {}
    /\ calls' = <<>>
    /\ lastOp' = Op("on_disconnect", NoTopic, NoGroup, FALSE)
    /\ UNCHANGED <<query, connected, stop_event, pc, useTLS, attemptLog,
                   subWaiters, pubWaiters, handler, tasks, requested>>

\* The broker connection is lost; the client calls _on_disconnect, which
\* only logs, and starts to re-connect by itself.
BrokerDisconnect ==
    /\ Running
    /\ is_connected
    /\ is_connected' = FALSE
    /\ reconnecting' = TRUE
    /\ calls' = <<>>
    /\ lastOp' = Op("on_disconnect", NoTopic, NoGroup, FALSE)
    /\ lostWith' = Keys(subscriptions)
    /\ covered' = {}
    /\ UNCHANGED <<query, subscriptions, connected, stop_event, pc, useTLS, attemptLog,
                   subWaiters, pubWaiters, handler, tasks, requested>>

\* The client's own re-connect succeeds; it calls _on_connect.
Reconnect ==
    /\ Running
    /\ reconnecting
    /\ ~is_connected
    /\ is_connected' = TRUE
    /\ reconnecting' = FALSE
    /\ calls' = on_connect(subscriptions)
    /\ lastOp' = Op("reconnect", NoTopic, NoGroup, FALSE)
    /\ covered' = Issued({}, calls')
    /\ UNCHANGED <<query, lostWith, subscriptions, connected, stop_event, pc, useTLS, attemptLog,
                   subWaiters, pubWaiters, handler, tasks, requested>>

\* mqtt_subscribe with connected set: connected.wait() returns at once and
\* subscribe(topic, group) runs.
MqttSubscribe(topic, group) ==
    /\ Running
    /\ connected
    /\ LET r == subscribe(subscriptions, is_connected, topic, group)
       IN  /\ subscriptions' = r.subs
           /\ calls' = r.calls
    /\ requested' = requested \cup {<<topic, group>>}
    /\ lastOp' = Op("subscribe", topic, group, FALSE)
    /\ covered' = Issued(covered, calls')
    /\ UNCHANGED <<query, lostWith, is_connected, reconnecting, connected, stop_event, pc, useTLS,
                   attemptLog, subWaiters, pubWaiters, handler, tasks>>

\* mqtt_subscribe with connected not set: the handler blocks in connected.wait().
MqttSubscribeWait(topic, group) ==
    /\ Running
    /\ ~connected
    /\ Waiting < MaxWaiting
    /\ <<topic, group>> \notin subWaiters
    /\ subWaiters' = subWaiters \cup {<<topic, group>>}
    /\ calls' = <<>>
    /\ lastOp' = Op("subscribe_wait", topic, group, FALSE)
    /\ UNCHANGED <<query, lostWith, covered, subscriptions, is_connected, reconnecting, connected, stop_event,
                   pc, useTLS, attemptLog, pubWaiters, handler, tasks,
                   requested>>

\* A blocked mqtt_subscribe handler resumes once connected is set.
MqttSubscribeResume(topic, group) ==
    /\ Running
    /\ connected
    /\ <<topic, group>> \in subWaiters
    /\ subWaiters' = subWaiters \ {<<topic, group>>}
    /\ LET r == subscribe(subscriptions, is_connected, topic, group)
       IN  /\ subscriptions' = r.subs
           /\ calls' = r.calls
    /\ requested' = requested \cup {<<topic, group>>}
    /\ lastOp' = Op("subscribe", topic, group, FALSE)
    /\ covered' = Issued(covered, calls')
    /\ UNCHANGED <<query, lostWith, is_connected, reconnecting, connected, stop_event, pc, useTLS,
                   attemptLog, pubWaiters, handler, tasks>>

\* unsubscribe(topic, group)
Unsubscribe(topic, group) ==
    /\ Running
    /\ LET r == unsubscribe(subscriptions, is_connected, topic, group)
       IN  /\ subscriptions' = r.subs
           /\ calls' = r.calls
           /\ lastOp' = Op("unsubscribe", topic, group, r.raised)
    /\ requested' = requested \ {<<topic, group>>}
    /\ covered' = Issued(covered, calls')
    /\ UNCHANGED <<query, lostWith, is_connected, reconnecting, connected, stop_event, pc, useTLS,
                   attemptLog, subWaiters, pubWaiters, handler, tasks>>

\* mqtt_publish with connected set
MqttPublish(topic) ==
    /\ Running
    /\ connected
    /\ calls' = publish(is_connected, topic)
    /\ lastOp' = Op("publish", topic, NoGroup, FALSE)
    /\ UNCHANGED <<query, lostWith, covered, subscriptions, is_connected, reconnecting, connected, stop_event,
                   pc, useTLS, attemptLog, subWaiters, pubWaiters, handler,
                   tasks, requested>>

\* mqtt_publish with connected not set: the handler blocks in connected.wait().
MqttPublishWait(topic) ==
    /\ Running
    /\ ~connected
    /\ Waiting < MaxWaiting
    /\ topic \notin pubWaiters
    /\ pubWaiters' = pubWaiters \cup {topic}
    /\ calls' = <<>>
    /\ lastOp' = Op("publish_wait", topic, NoGroup, FALSE)
    /\ UNCHANGED <<query, lostWith, covered, subscriptions, is_connected, reconnecting, connected, stop_event,
                   pc, useTLS, attemptLog, subWaiters, handler, tasks,
                   requested>>

\* A blocked mqtt_publish handler resumes once connected is set.
MqttPublishResume(topic) ==
    /\ Running
    /\ connected
    /\ topic \in pubWaiters
    /\ pubWaiters' = pubWaiters \ {topic}
    /\ calls' = publish(is_connected, topic)
    /\ lastOp' = Op("publish", topic, NoGroup, FALSE)
    /\ UNCHANGED <<query, lostWith, covered, subscriptions, is_connected, reconnecting, connected, stop_event,
                   pc, useTLS, attemptLog, subWaiters, handler, tasks,
                   requested>>

\* The broker delivers a message: _on_message up to its await. One
\* message's fan-out is followed at a time.
OnMessage(topic, payload, qos, retain) ==
    /\ Running
    /\ is_connected
    /\ Pending(tasks) = {}
    /\ LET msg == [topic |-> topic, payload |-> payload, qos |-> qos, retain |-> retain]
           r == on_message(subscriptions, msg)
       IN  /\ handler' = r.handler
           /\ tasks' = r.tasks
           /\ lastOp' = [Op("on_message", topic, NoGroup, r.handler = "raised")
                          EXCEPT !.msg = msg]
    /\ calls' = <<>>
    /\ UNCHANGED <<query, lostWith, covered, subscriptions, is_connected, reconnecting, connected, stop_event,
                   pc, useTLS, attemptLog, subWaiters, pubWaiters, requested>>

\* One group_send ends well.
DeliverOk(i) ==
    /\ Running
    /\ i \in Pending(tasks)
    /\ tasks' = [tasks EXCEPT ![i].status = "ok"]
    /\ handler' = Gathered(handler, tasks', FALSE)
    /\ calls' = <<>>
    /\ lastOp' = Op("deliver_ok", NoTopic, tasks[i].group, FALSE)
    /\ UNCHANGED <<query, lostWith, covered, subscriptions, is_connected, reconnecting, connected, stop_event,
                   pc, useTLS, attemptLog, subWaiters, pubWaiters, requested>>

\* One group_send raises.
DeliverFail(i) ==
    /\ Running
    /\ i \in Pending(tasks)
    /\ tasks' = AfterFailure(tasks, i)
    /\ handler' = Gathered(handler, tasks', TRUE)
    /\ calls' = <<>>
    /\ lastOp' = Op("deliver_fail", NoTopic, tasks[i].group, FALSE)
    /\ UNCHANGED <<query, lostWith, covered, subscriptions, is_connected, reconnecting, connected, stop_event,
                   pc, useTLS, attemptLog, subWaiters, pubWaiters, requested>>

\* topic_matches_sub(sub, topic) is called and returns.
TopicMatchesSub ==
    /\ query /= NoQuery
    /\ ~query.done
    /\ query' = [query EXCEPT !.done = TRUE,
                              !.result = topic_matches_sub(query.sub, query.topic)]
    /\ UNCHANGED <<subscriptions, is_connected, reconnecting, connected, stop_event,
                   pc, useTLS, attemptLog, subWaiters, pubWaiters, calls, lastOp,
                   handler, tasks, requested, lostWith, covered>>

ConnectAttempt == ConnectOk \/ \E o \in {"rejected", "transient", "tls_error"} : ConnectFail(o)

Lifecycle ==
    \/ Run
    \/ ConnectOk
    \/ Finish
    \/ AskExit
    \/ BrokerDisconnect
    \/ Reconnect
    \/ \E f \in Filters, g \in Groups : MqttSubscribe(f, g)

\* The connection, the registry and the consumer's handlers.
Next ==
    \/ Lifecycle
    \/ \E f \in Filters, g \in Groups : Unsubscribe(f, g)
    \/ \E o \in {"rejected", "transient", "tls_error"} : ConnectFail(o)
    \/ Wake
    \/ \E f \in Filters, g \in Groups : MqttSubscribeWait(f, g)
    \/ \E f \in Filters, g \in Groups : MqttSubscribeResume(f, g)
    \/ \E t \in PubTopics : MqttPublish(t)
    \/ \E t \in PubTopics : MqttPublishWait(t)
    \/ \E t \in PubTopics : MqttPublishResume(t)

\* The connection, the registry and the inbound fan-out, with a broker
\* that accepts the first connect attempt.
NextFanout ==
    \/ Lifecycle
    \/ \E t \in Topics, p \in Payloads, q \in QoS, r \in Retain : OnMessage(t, p, q, r)
    \/ \E i \in 1..Cardinality(Groups) : DeliverOk(i)
    \/ \E i \in 1..Cardinality(Groups) : DeliverFail(i)

Spec == Init /\ [][Next]_vars

\* The event loop runs the run() task whenever it can run: connect(), its
\* sleeps and finish().
FairSpec ==
    /\ Init
    /\ [][Next]_vars
    /\ WF_vars(Run)
    /\ WF_vars(ConnectAttempt)
    /\ WF_vars(Wake)
    /\ WF_vars(Finish)

InitFanout == Init /\ ~useTLS

SpecFanout == InitFanout /\ [][NextFanout]_vars

\* The matcher alone: a filter and a topic are chosen, topic_matches_sub runs.
InitMatch ==
    /\ InitProxy
    /\ ~useTLS
    /\ query \in {[fsegs |-> f, tsegs |-> t, sub |-> Join(f), topic |-> Join(t),
                   done |-> FALSE, result |-> FALSE] :
                    f \in TopicFilters, t \in TopicNames}

NextMatch == TopicMatchesSub

SpecMatch == InitMatch /\ [][NextMatch]_vars

\* ------------------------------------------------------------- properties

\* The registry as the sets it stands for: topic -> set of groups.
GroupSets(d) == [k \in Keys(d) |-> ListSet(Get(d, k))]

CallsOf(cs, op, topic) == {i \in DOMAIN cs : cs[i].op = op /\ cs[i].topic = topic}

Connects == {"connect_ok", "reconnect"}

\* C1: unsubscribe(f, g), called when g is subscribed to f, removes exactly g
\* from f's groups and leaves the other groups and filters as they were; when
\* that leaves f without a group, f's entry is deleted and one broker
\* unsubscribe for f is issued.
C1_UnsubscribeRemovesGroup ==
    [][\A f \in Filters, g \in Groups :
          ( /\ lastOp'.op = "unsubscribe" /\ lastOp'.topic = f /\ lastOp'.group = g
            /\ Has(subscriptions, f)
            /\ InList(g, Get(subscriptions, f)) )
          => LET before == GroupSets(subscriptions)
                 left == before[f] \ {g}
                 kept == IF left = {} THEN Keys(subscriptions) \ {f} ELSE Keys(subscriptions)
             IN  /\ GroupSets(subscriptions')
                      = [k \in kept |-> IF k = f THEN left ELSE before[k]]
                 /\ Cardinality(CallsOf(calls', "unsubscribe", f))
                      = IF left = {} THEN 1 ELSE 0
                 /\ Len(calls') = IF left = {} THEN 1 ELSE 0]_vars

\* C2: a filter is a key of the registry exactly when some group is
\* subscribed to it and has not been unsubscribed since, and no key has an
\* empty group list.
C2_KeyIffSubscribed ==
    \A f \in Filters :
        /\ Has(subscriptions, f) <=> (\E g \in Groups : <<f, g>> \in requested)
        /\ Has(subscriptions, f) => Get(subscriptions, f) /= <<>>

\* C3: a broker subscribe or unsubscribe is issued only while the client is
\* connected to the broker.
C3_SubscribeOnlyWhenConnected ==
    \A i \in DOMAIN calls :
        calls[i].op \in {"subscribe", "unsubscribe"} => calls[i].conn

\* C4: a connect-complete event issues exactly one broker subscribe for each
\* filter of the registry, whatever the number of its groups, and no other
\* call.
C4_ReplayOncePerFilter ==
    lastOp.op \in Connects =>
        /\ \A f \in Filters :
              Cardinality(CallsOf(calls, "subscribe", f))
                = IF Has(subscriptions, f) THEN 1 ELSE 0
        /\ Len(calls) = Cardinality(Keys(subscriptions))

\* C4 witness: a re-connect replays two filters, one of them with two groups.
C4_Witness ==
    /\ lastOp.op = "reconnect"
    /\ Keys(subscriptions) = Filters
    /\ \E f \in Filters : Len(Get(subscriptions, f)) = 2
    /\ Len(calls) = 2

\* C5: publish is handed to the broker client only while the client is
\* connected to the broker.
C5_PublishOnlyWhenConnected ==
    \A i \in DOMAIN calls : calls[i].op = "publish" => calls[i].conn

\* C6: once shutdown is requested, the broker disconnect is issued and the
\* process stops.
C6_ShutdownReachesStopped == stop_event ~> (pc = "stopped")

\* C7: a retained message sends nothing; any other message sends exactly one
\* event, carrying its topic, payload and qos, to each group of
\* groups_matching_topic(topic) and none to any other group.
C7_FanoutExactlyMatching ==
    lastOp.op = "on_message" =>
        LET msg == lastOp.msg
            gs == groups_matching_topic(subscriptions, msg.topic)
        IN  IF msg.retain = 1
            THEN tasks = <<>>
            ELSE /\ \A g \in Groups :
                       Cardinality({i \in DOMAIN tasks : tasks[i].group = g})
                         = IF g \in gs THEN 1 ELSE 0
                 /\ \A i \in DOMAIN tasks :
                       /\ tasks[i].event.message.topic = msg.topic
                       /\ tasks[i].event.message.qos = msg.qos
                       /\ tasks[i].event.message.payload.id = msg.payload.id

\* C8: a failing group_send leaves the other group_sends of the message to
\* run and complete, and the failure does not leave _on_message.
C8_FailureIsolated ==
    /\ \A i \in DOMAIN tasks : tasks[i].status \in {"pending", "ok", "failed"}
    /\ (\E i \in DOMAIN tasks : tasks[i].status = "failed") => handler = "caught"
    /\ handler = "raised" => tasks = <<>>

\* C8 witness: one group_send failed, and the other one completed after it.
C8_Witness ==
    /\ lastOp.op = "deliver_ok"
    /\ handler = "caught"
    /\ \E i, j \in DOMAIN tasks :
          /\ tasks[i].status = "failed"
          /\ tasks[j].status = "ok"
          /\ tasks[j].group = lastOp.group

\* C9: _on_message does not fail on any payload: a message that is not
\* retained is fanned out to its matching groups whatever its payload.
C9_PayloadNeverFails ==
    (lastOp.op = "on_message" /\ lastOp.msg.retain = 0) =>
        /\ handler /= "raised"
        /\ {tasks[i].group : i \in DOMAIN tasks}
             = groups_matching_topic(subscriptions, lastOp.msg.topic)

\* C10: the sleep after a connect attempt is the long cooldown exactly when
\* the attempt ended in a broker rejection, the short delay after a transient
\* failure or a TLS context failure, and the two differ.
C10_BackoffTiers ==
    /\ TlsRetryDelay = TransientDelay
    /\ RejectCooldown /= TransientDelay
    /\ \A i \in DOMAIN attemptLog :
          /\ attemptLog[i].delay = RejectCooldown <=> attemptLog[i].outcome = "rejected"
          /\ attemptLog[i].outcome \in {"transient", "tls_error"}
                => attemptLog[i].delay = TransientDelay

\* C10 witness: three transient failures, then a rejection: short, short,
\* short, long.
C10_Witness ==
    /\ Len(attemptLog) >= 4
    /\ LET n == Len(attemptLog)
       IN  /\ \A i \in (n - 3)..(n - 1) :
                 attemptLog[i] = [outcome |-> "transient", delay |-> TransientDelay]
           /\ attemptLog[n] = [outcome |-> "rejected", delay |-> RejectCooldown]

\* C11: no failed attempt ends the connect phase: after a transient failure,
\* a rejection or a TLS context failure connect() sleeps and then makes
\* another attempt, and connected is set (connect() has returned) only once
\* a handshake has succeeded.
C11_RetriesUntilConnected ==
    /\ lastOp.op = "connect_fail" => (pc = "sleep" /\ ~connected /\ ~is_connected)
    /\ pc = "sleep" => ENABLED Wake
    /\ (pc = "connect" /\ ~is_connected) => ENABLED ConnectAttempt
    /\ pc \in {"start", "connect", "sleep"} <=> ~connected
    /\ lastOp.op = "connect_ok" => (connected /\ is_connected /\ pc = "finish")

\* C11 witness: connect() is about to try again after a transient failure,
\* a rejection and a TLS context failure.
C11_Witness ==
    /\ pc = "connect"
    /\ ~connected
    /\ {attemptLog[i].outcome : i \in DOMAIN attemptLog}
         = {"transient", "rejected", "tls_error"}
    /\ Len(attemptLog) >= 4

\* The level-wise reading of a filter: a literal level matches the equal
\* level, + one level, a final # what is left (nothing included).
RECURSIVE LevelsMatch(_, _)
LevelsMatch(f, t) ==
    IF Len(f) = 0 THEN Len(t) = 0
    ELSE IF f[1] = Hash THEN Len(f) = 1
    ELSE IF Len(t) = 0 THEN FALSE
    ELSE IF f[1] = <<"+">> \/ f[1] = t[1] THEN LevelsMatch(Tail(f), Tail(t))
    ELSE FALSE

DollarMismatch(sub, topic) ==
    (Len(sub) > 0 /\ sub[1] = "$") /= (Len(topic) > 0 /\ topic[1] = "$")

\* C12: for a filter of valid form and a topic name, topic_matches_sub gives
\* what the level-wise reading gives, a mismatch of the leading $ being no
\* match.
C12_MatchesLevelWise ==
    query.done =>
        query.result = (/\ ~DollarMismatch(query.sub, query.topic)
                        /\ LevelsMatch(query.fsegs, query.tsegs))

\* C16: when exactly one of filter and topic begins with $ there is no
\* match, whatever the filter's wildcards; $s/# does match $s/a.
C16_DollarBoundary ==
    query.done =>
        /\ DollarMismatch(query.sub, query.topic) => ~query.result
        /\ (query.sub = <<"$", "s", "/", "#">> /\ query.topic = <<"$", "s", "/", "a">>)
              => query.result

\* C16 witness: +/+ was matched against $s/a and did not match.
C16_Witness ==
    /\ query.done
    /\ query.sub = <<"+", "/", "+">>
    /\ query.topic = <<"$", "s", "/", "a">>
    /\ ~query.result

\* C17: a topic name used as the filter matches itself.
C17_SelfMatch ==
    (query.done /\ query.sub = query.topic) => query.result

\* C17 witness: a three-level topic name was matched against itself.
C17_Witness ==
    /\ query.done
    /\ query.sub = query.topic
    /\ Len(query.tsegs) = 3
    /\ query.result

\* C13: groups_matching_topic(topic) is the set of the groups of every stored
\* filter that equals the topic or matches it: a group that several filters
\* contribute is there once, a group none of whose filters matches is not.
C13_MatchingGroupsIsUnion ==
    /\ \A t \in Topics, g \in Groups :
          g \in groups_matching_topic(subscriptions, t)
            <=> \E f \in Keys(subscriptions) :
                   /\ f = t \/ topic_matches_sub(f, t)
                   /\ InList(g, Get(subscriptions, f))
    /\ (lastOp.op = "on_message" /\ handler \in {"gathering", "returned"}) =>
          /\ \A g \in Groups :
                (\E i \in DOMAIN tasks : tasks[i].group = g)
                  <=> \E f \in Keys(subscriptions) :
                         /\ f = lastOp.msg.topic \/ topic_matches_sub(f, lastOp.msg.topic)
                         /\ InList(g, Get(subscriptions, f))
          /\ \A i, j \in DOMAIN tasks : tasks[i].group = tasks[j].group => i = j

\* C13 witness: g1 is in both filters and g2 in a/b only; a message on a/c,
\* which a/+ alone matches, goes to g1 once and not to g2.
C13_Witness ==
    /\ lastOp.op = "on_message"
    /\ lastOp.msg.topic = tAC
    /\ Keys(subscriptions) = Filters
    /\ ListSet(Get(subscriptions, fPlus)) = {"g1"}
    /\ ListSet(Get(subscriptions, fAB)) = {"g1", "g2"}
    /\ Len(tasks) = 1
    /\ tasks[1].group = "g1"

\* C14: subscribe(f, g) with g already subscribed to f changes nothing in
\* the registry and issues no broker call, so that no group is ever twice in
\* a filter's list.
C14_SubscribeIdempotent ==
    [][\A f \in Filters, g \in Groups :
          (lastOp'.op = "subscribe" /\ lastOp'.topic = f /\ lastOp'.group = g)
          => /\ (Has(subscriptions, f) /\ InList(g, Get(subscriptions, f)))
                  => (subscriptions' = subscriptions /\ calls' = <<>>)
             /\ Len(Get(subscriptions', f)) = Cardinality(ListSet(Get(subscriptions', f)))]_vars

\* C14 witness: subscribe(f, g) has run on a filter whose only group is g,
\* without a broker call: f was a key, and g its group, before the call.
C14_Witness ==
    \E f \in Filters, g \in Groups :
        /\ lastOp.op = "subscribe" /\ lastOp.topic = f /\ lastOp.group = g
        /\ calls = <<>>
        /\ Get(subscriptions, f) = <<g>>

\* C15: subscribe(f, g) issues a broker subscribe for f exactly when f was
\* no key of the registry before the call, one call and no other, and g is
\* in f's groups after the call.
C15_BrokerSubscribeIffNewFilter ==
    [][\A f \in Filters, g \in Groups :
          (lastOp'.op = "subscribe" /\ lastOp'.topic = f /\ lastOp'.group = g)
          => /\ Cardinality(CallsOf(calls', "subscribe", f))
                  = IF Has(subscriptions, f) THEN 0 ELSE 1
             /\ Len(calls') = IF Has(subscriptions, f) THEN 0 ELSE 1
             /\ Has(subscriptions', f)
             /\ InList(g, Get(subscriptions', f))]_vars

\* C15 witness: a second group has been added to a filter, without a broker
\* call, and the other filter is in the registry too.
C15_Witness ==
    \E f \in Filters, g \in Groups :
        /\ lastOp.op = "subscribe" /\ lastOp.topic = f /\ lastOp.group = g
        /\ calls = <<>>
        /\ Len(Get(subscriptions, f)) = 2
        /\ Get(subscriptions, f)[2] = g
        /\ Keys(subscriptions) = Filters

\* C18: the broker disconnect of the shutdown is issued only when every
\* delivery that _on_message has dispatched has completed.
C18_DisconnectAfterDeliveries ==
    (lastOp.op = "finish" /\ \E i \in DOMAIN calls : calls[i].op = "disconnect")
        => Pending(tasks) = {}

\* C19: the loss of the broker connection leaves the registry as it was, and
\* the next connect-complete event issues a broker subscribe for every filter
\* that was in the registry at the loss and still is.
C19_DisconnectKeepsRegistry ==
    [][/\ lastOp'.op = "on_disconnect" =>
             /\ subscriptions' = subscriptions
             /\ GroupSets(subscriptions') = GroupSets(subscriptions)
             /\ lostWith' = Keys(subscriptions')
       /\ (lastOp'.op \in Connects /\ lastOp.op /= lastOp'.op) =>
             \A f \in lostWith \cap Keys(subscriptions') :
                 \E i \in DOMAIN calls' :
                     /\ calls'[i].op = "subscribe"
                     /\ calls'[i].topic = f
                     /\ calls'[i].conn]_vars

\* C19 witness: the connection was lost with both filters in the registry,
\* one of them with two groups, and the re-connect has replayed them.
C19_Witness ==
    /\ lastOp.op = "reconnect"
    /\ lostWith = Filters
    /\ \E f \in Filters : ListSet(Get(subscriptions, f)) = Groups
    /\ covered = Filters

\* C20: while the client is connected, every filter of the registry has been
\* handed to the broker in a subscribe on the present connection.
C20_SessionCoversRegistry ==
    is_connected => Keys(subscriptions) \subseteq covered

\* C20 witness: the connection was lost with an empty registry, both filters
\* were subscribed while it was down, and the client is connected again.
C20_Witness ==
    /\ is_connected
    /\ lastOp.op = "reconnect"
    /\ lostWith = {}
    /\ Keys(subscriptions) = Filters
    /\ covered = Filters

====
